---- MODULE Spec2Model ----
(***************************************************************************)
(* Block DOM (owl): a model of the mount / patch / remove protocol of the  *)
(* five block variants (BText, BHtml, BNode, BMulti, BCollection) over an  *)
(* explicit heap of DOM nodes.                                             *)
(*                                                                         *)
(* The DOM is a heap `dom` (a sequence of node records, a node's identity  *)
(* is its index); the blocks are a heap `blocks` (a sequence of block      *)
(* records).  Every method of the source is an operator from heap state to *)
(* heap state; a loop of the source is a recursive operator over the loop  *)
(* index.  A JavaScript TypeError is the flag `err`: once it is set, every *)
(* later statement of the running operation is skipped.                    *)
(***************************************************************************)
EXTENDS Integers, Sequences, FiniteSets, TLC

VARIABLES
  dom,       \* the heap of DOM nodes
  blocks,    \* the heap of blocks
  roots,     \* the root blocks mounted into the container, in mount order
  rendered,  \* the tree last handed to mount or patch of the root
  calls,     \* the method calls of the last operation, in order
  fired,     \* the handler thunks the last click ran
  err,       \* a TypeError was thrown
  last,      \* the last operation and the heaps before it
  history,   \* the names of the operations so far
  out        \* the string the last toString returned

vars == <<dom, blocks, roots, rendered, calls, fired, err, last, history, out>>

\* ---------------------------------------------------------------- bounds

\* Number of operations (mount, patch, remove, dispatch) in one behaviour.
MaxOps == 4

\* Number of sibling blocks mounted into the one container.
MaxSiblings == 2

\* ------------------------------------------------------------ DOM values

\* null / undefined: no node, no block.
NULL == 0

\* One lexical token of a markup string: an opening tag, a closing tag or a
\* character of text.
Open(tag) == [t |-> "open", v |-> tag]
Close(tag) == [t |-> "close", v |-> tag]
Chr(c) == [t |-> "char", v |-> c]
\* An attribute written inside the opening tag that stands before it.
AttrTok(attr) == [t |-> "attr", v |-> attr]

\* An attribute of an element: its name and its value, the value as the list
\* of its whitespace-separated tokens.
Attr(name, tokens) == [name |-> name, value |-> tokens]

\* document.createTextNode(text): a detached text node.
TextNode(text) ==
  [kind |-> "text", tag |-> "", text |-> text, kids |-> <<>>, parent |-> NULL,
   listeners |-> <<>>, attrs |-> <<>>]

\* document.createElement(tag): a detached empty element.
ElemNode(tag) ==
  [kind |-> "elem", tag |-> tag, text |-> <<>>, kids |-> <<>>, parent |-> NULL,
   listeners |-> <<>>, attrs |-> <<>>]

\* Position of node n in the sequence q (0 when absent).
IndexOf(q, n) ==
  IF \E i \in 1..Len(q) : q[i] = n
    THEN CHOOSE i \in 1..Len(q) : q[i] = n
    ELSE 0

\* q without its element at position i.
DropAt(q, i) == SubSeq(q, 1, i - 1) \o SubSeq(q, i + 1, Len(q))

\* q with n inserted so that it stands at position i.
InsertAt(q, i, n) == SubSeq(q, 1, i - 1) \o <<n>> \o SubSeq(q, i, Len(q))

\* node.remove(): detach n from its parent; nothing happens to a detached node.
Detach(d, n) ==
  LET p == d[n].parent IN
  IF p = NULL THEN d
  ELSE [d EXCEPT ![p].kids = DropAt(@, IndexOf(@, n)), ![n].parent = NULL]

\* parent.appendChild(n): n becomes the last child of p.
AppendChild(d, p, n) ==
  [Detach(d, n) EXCEPT ![p].kids = Append(@, n), ![n].parent = p]

\* ref.before(n): n is inserted right before ref under ref's parent; when ref
\* has no parent the call returns without touching n.
Before(d, ref, n) ==
  LET p == d[ref].parent IN
  IF p = NULL THEN d
  ELSE [Detach(d, n) EXCEPT ![p].kids = InsertAt(@, IndexOf(@, ref), n), ![n].parent = p]

\* old.replaceWith(n): n takes the place of old under old's parent.
ReplaceWith(d, old, n) ==
  LET p == d[old].parent IN
  IF p = NULL THEN d
  ELSE [Detach(d, n) EXCEPT ![p].kids = [@ EXCEPT ![IndexOf(@, old)] = n],
                            ![n].parent = p, ![old].parent = NULL]

\* Position of the attribute `name` in the attribute list q (0 when absent).
AttrIndex(q, name) ==
  IF \E i \in 1..Len(q) : q[i].name = name
    THEN CHOOSE i \in 1..Len(q) : q[i].name = name
    ELSE 0

\* element.setAttribute(name, value): the value of the attribute is replaced
\* where it stands, or the attribute is added after the others.
SetAttribute(d, n, name, tokens) ==
  IF AttrIndex(d[n].attrs, name) = 0
    THEN [d EXCEPT ![n].attrs = Append(@, Attr(name, tokens))]
    ELSE [d EXCEPT ![n].attrs[AttrIndex(d[n].attrs, name)].value = tokens]

\* element.removeAttribute(name)
RemoveAttribute(d, n, name) ==
  IF AttrIndex(d[n].attrs, name) = 0 THEN d
  ELSE [d EXCEPT ![n].attrs = DropAt(@, AttrIndex(d[n].attrs, name))]

\* element.classList.add(token): the token list is the class attribute; a
\* token it holds already is not added again.
ClassListAdd(d, n, token) ==
  IF AttrIndex(d[n].attrs, "class") = 0
    THEN [d EXCEPT ![n].attrs = Append(@, Attr("class", <<token>>))]
  ELSE IF \E i \in 1..Len(d[n].attrs[AttrIndex(d[n].attrs, "class")].value) :
            d[n].attrs[AttrIndex(d[n].attrs, "class")].value[i] = token
    THEN d
  ELSE [d EXCEPT ![n].attrs[AttrIndex(d[n].attrs, "class")].value = Append(@, token)]

\* The descendants of n in document order (n itself excluded).
RECURSIVE Descendants(_, _)
RECURSIVE DescendantsOfAll(_, _)
Descendants(d, n) == DescendantsOfAll(d, d[n].kids)

DescendantsOfAll(d, q) ==
  IF q = <<>> THEN <<>>
  ELSE <<Head(q)>> \o Descendants(d, Head(q)) \o DescendantsOfAll(d, Tail(q))

IsTag(d, n, tag) == d[n].kind = "elem" /\ d[n].tag = tag

\* element.getElementsByTagName(tag), evaluated on the current heap: the
\* collection is live, so every use re-evaluates it.
GetElementsByTagName(d, n, tag) ==
  LET IsHit(m) == IsTag(d, m, tag) IN SelectSeq(Descendants(d, n), IsHit)

\* node.cloneNode(true): a deep copy of n appended to the heap as the last
\* child of `under` (NULL: detached).  The copy of n is node Len(d) + 1;
\* listeners are not copied.
RECURSIVE CloneUnder(_, _, _)
RECURSIVE CloneAllUnder(_, _, _)
CloneUnder(d, n, under) ==
  LET id == Len(d) + 1
      Copy(d1) == IF under = NULL THEN d1 ELSE [d1 EXCEPT ![under].kids = Append(@, id)]
  IN CloneAllUnder(
       Copy(Append(d, [d[n] EXCEPT !.kids = <<>>, !.parent = under, !.listeners = <<>>])),
       d[n].kids, id)

CloneAllUnder(d, q, under) ==
  IF q = <<>> THEN d
  ELSE CloneAllUnder(CloneUnder(d, Head(q), under), Tail(q), under)

\* --------------------------------------------------- markup: parse, print

\* element.innerHTML = html on an empty element: the fragment parser.  Text
\* characters that follow one another make one text node; an opening tag
\* makes an element that stays open until its closing tag; a closing tag
\* without an open element of that name is dropped; elements still open at
\* the end are closed there.  `open` is the stack of open elements, the
\* context element at its bottom.
RECURSIVE ParseInto(_, _, _)
ParseInto(d, open, toks) ==
  IF toks = <<>> THEN d
  ELSE
    LET tok == Head(toks)
        cur == open[Len(open)]
        kids == d[cur].kids
        lastKid == IF kids = <<>> THEN NULL ELSE kids[Len(kids)]
        id == Len(d) + 1
    IN CASE tok.t = "char" ->
              IF lastKid # NULL /\ d[lastKid].kind = "text"
                THEN ParseInto([d EXCEPT ![lastKid].text = Append(@, tok.v)],
                               open, Tail(toks))
                ELSE ParseInto(AppendChild(Append(d, TextNode(<<tok.v>>)), cur, id),
                               open, Tail(toks))
         [] tok.t = "open" ->
              ParseInto(AppendChild(Append(d, ElemNode(tok.v)), cur, id),
                        Append(open, id), Tail(toks))
         [] tok.t = "attr" ->
              IF Len(open) = 1 \/ AttrIndex(d[cur].attrs, tok.v.name) # 0
                THEN ParseInto(d, open, Tail(toks))
                ELSE ParseInto([d EXCEPT ![cur].attrs = Append(@, tok.v)], open, Tail(toks))
         [] OTHER ->
              LET hit == {i \in 2..Len(open) : d[open[i]].tag = tok.v} IN
              IF hit = {} THEN ParseInto(d, open, Tail(toks))
              ELSE LET top == CHOOSE i \in hit : \A j \in hit : j <= i
                   IN ParseInto(d, SubSeq(open, 1, top - 1), Tail(toks))

\* The serialization of node n (outerHTML) and of a list of nodes: a text
\* node prints its characters, an element its tags around its children.
RECURSIVE OuterHTML(_, _)
RECURSIVE PrintAll(_, _)
OuterHTML(d, n) ==
  IF d[n].kind = "text" THEN [i \in 1..Len(d[n].text) |-> Chr(d[n].text[i])]
  ELSE <<Open(d[n].tag)>> \o [i \in 1..Len(d[n].attrs) |-> AttrTok(d[n].attrs[i])]
         \o PrintAll(d, d[n].kids) \o <<Close(d[n].tag)>>

PrintAll(d, q) ==
  IF q = <<>> THEN <<>>
  ELSE OuterHTML(d, Head(q)) \o PrintAll(d, Tail(q))

\* element.innerHTML read.
InnerHTML(d, n) == PrintAll(d, d[n].kids)

\* The markup of what `html` parses to: parse it into an empty <div> of an
\* empty heap and print the result.
ParsedMarkup(html) ==
  InnerHTML(ParseInto(<<ElemNode("div")>>, <<1>>, html), 1)

\* ------------------------------------------------------------ block trees

\* What a factory is asked to build: one record per block of the tree, the
\* same fields for every variant ("null" is an empty slot).
Tree(variant, text, html, tpl, data, handlers, hasChildren, children) ==
  [variant |-> variant, text |-> text, html |-> html, tpl |-> tpl, data |-> data,
   handlers |-> handlers, hasChildren |-> hasChildren, children |-> children]

Nil == Tree("null", <<>>, <<>>, NULL, "", <<>>, FALSE, <<>>)
TText(text) == Tree("BText", text, <<>>, NULL, "", <<>>, FALSE, <<>>)
THtml(html) == Tree("BHtml", <<>>, html, NULL, "", <<>>, FALSE, <<>>)
TMulti(children) == Tree("BMulti", <<>>, <<>>, NULL, "", <<>>, TRUE, children)
TCollection(children) == Tree("BCollection", <<>>, <<>>, NULL, "", <<>>, TRUE, children)
\* A BNode subclass without dynamic slots leaves `children` null.
TNode(tpl, data, handlers, children) ==
  Tree("BNode", <<>>, <<>>, tpl, data, handlers, children # <<>>, children)

\* The heap state the methods work on: the two heaps, the log of the method
\* calls of the running operation, the TypeError flag and the value returned
\* by the last constructor.
Heap(d, b, c, e, r) == [dom |-> d, blocks |-> b, calls |-> c, err |-> e, ret |-> r]

\* A statement that throws: the rest of the operation is skipped.
Throw(s) == [s EXCEPT !.err = TRUE]

\* A new node on the heap; its identity is left in `ret`.
NewNode(s, node) == [s EXCEPT !.dom = Append(@, node), !.ret = Len(s.dom) + 1]

\* Block: el = null (the field initializers of the subclasses are given by
\* the constructors below); mounts, removes and late only count the calls.
NewBlock(variant) ==
  [variant |-> variant, el |-> NULL, html |-> <<>>, content |-> <<>>,
   anchor |-> NULL, hasChildren |-> FALSE, children |-> <<>>, anchors |-> <<>>,
   data |-> "", hasHandlers |-> FALSE, handlers |-> <<>>, tpl |-> NULL,
   mounts |-> 0, removes |-> 0, late |-> FALSE]

\* The log entry of a method call, and the counters of the block called:
\* late records a patch or a remove that comes after a remove.
Call(s, op, b, arg) ==
  [s EXCEPT !.calls = Append(@, [op |-> op, blk |-> b, arg |-> arg]),
            !.blocks[b].mounts = @ + (IF op = "mountBefore" THEN 1 ELSE 0),
            !.blocks[b].removes = @ + (IF op = "remove" THEN 1 ELSE 0),
            !.blocks[b].late = @ \/ (s.blocks[b].removes > 0 /\ op \in {"patch", "remove"})]

\* new BHtml(html): html = String(html) (the inputs are strings already),
\* content = [], anchor = a new empty text node.
NewBHtml(s, html) ==
  LET Fields(s1) ==
        [s1 EXCEPT !.blocks = Append(@, [NewBlock("BHtml") EXCEPT !.html = html,
                                                                  !.anchor = s1.ret]),
                   !.ret = Len(s1.blocks) + 1]
  IN Fields(NewNode(s, TextNode(<<>>)))

\* new BText(text): el = a new text node holding text.
NewBText(s, text) ==
  LET Fields(s1) ==
        [s1 EXCEPT !.blocks = Append(@, [NewBlock("BText") EXCEPT !.el = s1.ret]),
                   !.ret = Len(s1.blocks) + 1]
  IN Fields(NewNode(s, TextNode(text)))

\* new BMulti(n): children and anchors are arrays of n empty entries.
NewBMulti(s, n) ==
  [s EXCEPT !.blocks = Append(@, [NewBlock("BMulti") EXCEPT
                                    !.hasChildren = TRUE,
                                    !.children = [i \in 1..n |-> NULL],
                                    !.anchors = [i \in 1..n |-> NULL]]),
            !.ret = Len(s.blocks) + 1]

\* new BCollection(n): children is an array of n empty entries.
NewBCollection(s, n) ==
  [s EXCEPT !.blocks = Append(@, [NewBlock("BCollection") EXCEPT
                                    !.hasChildren = TRUE,
                                    !.children = [i \in 1..n |-> NULL]]),
            !.ret = Len(s.blocks) + 1]

\* A BNode subclass instance: children, anchors, data and handlers start as
\* null and the factory fills in children, data and handlers; the static el
\* of the subclass is its template.
NewBNode(s, t) ==
  [s EXCEPT !.blocks = Append(@, [NewBlock("BNode") EXCEPT
                                    !.tpl = t.tpl,
                                    !.data = t.data,
                                    !.hasHandlers = t.handlers # <<>>,
                                    !.handlers = t.handlers,
                                    !.hasChildren = t.hasChildren,
                                    !.children = [i \in 1..Len(t.children) |-> NULL]]),
            !.ret = Len(s.blocks) + 1]

\* The factory: the block of tree t, then its children slot by slot; the
\* root's identity is left in `ret`.
RECURSIVE Construct(_, _)
RECURSIVE ConstructChildren(_, _, _, _)
Construct(s, t) ==
  LET b == Len(s.blocks) + 1
      New(s0) == CASE t.variant = "BText" -> NewBText(s0, t.text)
                   [] t.variant = "BHtml" -> NewBHtml(s0, t.html)
                   [] t.variant = "BMulti" -> NewBMulti(s0, Len(t.children))
                   [] t.variant = "BCollection" -> NewBCollection(s0, Len(t.children))
                   [] OTHER -> NewBNode(s0, t)
  IN [ConstructChildren(New(s), b, t.children, 1) EXCEPT !.ret = b]

ConstructChildren(s, b, kids, i) ==
  IF i > Len(kids) THEN s
  ELSE IF kids[i].variant = "null" THEN ConstructChildren(s, b, kids, i + 1)
  ELSE LET Install(s1) == [s1 EXCEPT !.blocks[b].children[i] = s1.ret] IN
       ConstructChildren(Install(Construct(s, kids[i])), b, kids, i + 1)

\* ---------------------------------------------------------------- methods

\* State-level forms of the DOM calls: a call on null / undefined throws.
SBefore(s, ref, n) ==
  IF s.err THEN s
  ELSE IF ref = NULL THEN Throw(s)
  ELSE [s EXCEPT !.dom = Before(@, ref, n)]

SDetach(s, n) ==
  IF s.err THEN s
  ELSE IF n = NULL THEN Throw(s)
  ELSE [s EXCEPT !.dom = Detach(@, n)]

\* for (let elem of q) ref.before(elem)
RECURSIVE BeforeAll(_, _, _)
BeforeAll(s, ref, q) ==
  IF q = <<>> THEN s
  ELSE BeforeAll(SBefore(s, ref, Head(q)), ref, Tail(q))

\* for (let elem of q) elem.remove()
RECURSIVE DetachAll(_, _)
DetachAll(s, q) ==
  IF q = <<>> THEN s
  ELSE DetachAll(SDetach(s, Head(q)), Tail(q))

\* BHtml.build: parse this.html into a new <div>, keep its child nodes as
\* content and the first of them (undefined when there is none) as el.
BHtml_build(s, b) ==
  LET SetInnerHTML(s1) ==
        [s1 EXCEPT !.dom = ParseInto(@, <<s1.ret>>, s1.blocks[b].html)]
      Keep(s2) ==
        [s2 EXCEPT !.blocks[b].content = s2.dom[s2.ret].kids,
                   !.blocks[b].el = IF s2.dom[s2.ret].kids = <<>> THEN NULL
                                    ELSE s2.dom[s2.ret].kids[1]]
  IN Keep(SetInnerHTML(NewNode(s, ElemNode("div"))))

\* for (let elem of this.content) this.anchor.before(elem)
BHtml_insertContent(s, b) == BeforeAll(s, s.blocks[b].anchor, s.blocks[b].content)

\* BHtml.mountBefore
BHtml_mountBefore(s, b, anchor) ==
  LET InsertAnchor(s1) == SBefore(s1, anchor, s1.blocks[b].anchor)
  IN BHtml_insertContent(InsertAnchor(BHtml_build(s, b)), b)

\* BHtml.remove
BHtml_remove(s, b) ==
  SDetach(DetachAll(s, s.blocks[b].content), s.blocks[b].anchor)

\* A patch that would put the new leaves at the end of the anchor's parent
\* instead of before the anchor.
BHtml_patch_appends(s, b, other) ==
  LET AtEnd(s1) ==
        [s1 EXCEPT !.dom =
           [n \in 1..Len(s1.dom) |->
              IF n = s1.dom[s1.blocks[b].anchor].parent
                THEN [s1.dom[n] EXCEPT !.kids = @ \o s1.blocks[b].content]
              ELSE IF \E i \in 1..Len(s1.blocks[b].content) : s1.blocks[b].content[i] = n
                THEN [s1.dom[n] EXCEPT !.parent = s1.dom[s1.blocks[b].anchor].parent]
              ELSE s1.dom[n]]]
  IN AtEnd(BHtml_build(DetachAll(s, s.blocks[b].content), b))

\* BHtml.patch: the leaves go, build() runs again, the new leaves come in
\* before the block's own anchor.
BHtml_patch(s, b, other) ==
  BHtml_insertContent(BHtml_build(DetachAll(s, s.blocks[b].content), b), b)

\* BHtml.toString
BHtml_toString(s, b) == s.blocks[b].html

\* BText.mountBefore
BText_mountBefore(s, b, anchor) == SBefore(s, anchor, s.blocks[b].el)

\* A patch that would adopt the successor's node instead of copying its text.
BText_patch_adoptsNode(s, b, other) ==
  [s EXCEPT !.blocks[b].el = s.blocks[other].el]

\* BText.patch: this.el.textContent = other.el.textContent
BText_patch(s, b, other) ==
  [s EXCEPT !.dom[s.blocks[b].el].text = s.dom[s.blocks[other].el].text]

\* BText.toString
BText_toString(s, b) ==
  [i \in 1..Len(s.dom[s.blocks[b].el].text) |-> Chr(s.dom[s.blocks[b].el].text[i])]

\* Block.remove: the default, inherited by BText and BCollection.
Block_remove(s, b) == s

\* BNode.update: empty in BNode.
BNode_update(s, b) == s

\* A JavaScript value handed to a helper: a string, a boolean or null, with
\* the string String(value) gives.
JsString(v) == [js |-> "string", v |-> v]
JsBoolean(v) == [js |-> "boolean", v |-> v]
JsNull == [js |-> "null", v |-> "null"]

\* if (value): "", false and null are falsy.
Truthy(value) ==
  CASE value.js = "string" -> value.v # ""
    [] value.js = "boolean" -> value.v = "true"
    [] OTHER -> FALSE

\* An updateClass that would append to className instead of adding to the
\* token list.
BNode_updateClass_appends(s, elem, class) ==
  IF s.err \/ ~Truthy(class) THEN s
  ELSE IF elem = NULL THEN Throw(s)
  ELSE [s EXCEPT !.dom =
          IF AttrIndex(s.dom[elem].attrs, "class") = 0
            THEN SetAttribute(@, elem, "class", <<class.v>>)
            ELSE [@ EXCEPT ![elem].attrs[AttrIndex(s.dom[elem].attrs, "class")].value =
                             Append(@, class.v)]]

\* BNode.updateClass: if (_class) elem.classList.add(_class)
BNode_updateClass(s, elem, class) ==
  IF s.err \/ ~Truthy(class) THEN s
  ELSE IF elem = NULL THEN Throw(s)
  ELSE [s EXCEPT !.dom = ClassListAdd(@, elem, class.v)]

\* BNode.updateAttr: setAttribute(attr, value) for a truthy value,
\* removeAttribute(attr) otherwise.
BNode_updateAttr(s, elem, attr, value) ==
  IF s.err THEN s
  ELSE IF elem = NULL THEN Throw(s)
  ELSE IF Truthy(value) THEN [s EXCEPT !.dom = SetAttribute(@, elem, attr, <<value.v>>)]
  ELSE [s EXCEPT !.dom = RemoveAttribute(@, elem, attr)]

\* One helper call of an update step.
UpdateAttrCall(attr, value) == [fn |-> "updateAttr", attr |-> attr, value |-> value]
UpdateClassCall(class) == [fn |-> "updateClass", attr |-> "class", value |-> class]

\* update of a compiled BNode subclass: the helper calls its template
\* compiles to, each on the root element with a value taken from data.
RECURSIVE BNode_updateStep(_, _, _)
BNode_updateStep(s, b, steps) ==
  IF s.err \/ steps = <<>> THEN s
  ELSE IF Head(steps).fn = "updateAttr"
    THEN BNode_updateStep(
           BNode_updateAttr(Call(s, "updateAttr", b, Head(steps)), s.blocks[b].el,
                            Head(steps).attr, Head(steps).value),
           b, Tail(steps))
    ELSE BNode_updateStep(
           BNode_updateClass(Call(s, "updateClass", b, Head(steps)), s.blocks[b].el,
                             Head(steps).value),
           b, Tail(steps))

\* BNode.setupHandler: one listener on el for the event type of
\* handlers[index]; the listener, when it runs, reads this.handlers[index][1].
BNode_setupHandler(s, b, el, index) ==
  IF s.err THEN s
  ELSE IF ~s.blocks[b].hasHandlers \/ index > Len(s.blocks[b].handlers) \/ el = NULL
    THEN Throw(s)
  ELSE [s EXCEPT !.dom[el].listeners =
                   Append(@, [type |-> s.blocks[b].handlers[index].type,
                              blk |-> b, index |-> index])]

\* setupHandlers of a compiled BNode subclass: setupHandler on the root
\* element for every index of handlers.
RECURSIVE BNode_setupHandlers(_, _, _)
BNode_setupHandlers(s, b, index) ==
  IF s.err \/ index > Len(s.blocks[b].handlers) THEN s
  ELSE BNode_setupHandlers(BNode_setupHandler(s, b, s.blocks[b].el, index), b, index + 1)

\* A loop that would replace the last element of the live collection
\* instead of the first.
RECURSIVE BNode_buildAnchors_fromLast(_, _, _, _, _)
BNode_buildAnchors_fromLast(s, el, count, i, anchors) ==
  IF i > count THEN [s EXCEPT !.ret = anchors]
  ELSE LET Replace(s1, anchorElems) ==
             IF anchorElems = <<>> THEN Throw(s1)
             ELSE [s1 EXCEPT !.dom = ReplaceWith(@, anchorElems[Len(anchorElems)], s1.ret)]
           Loop(s2) ==
             IF s2.err THEN s2
             ELSE BNode_buildAnchors_fromLast(s2, el, count, i + 1, Append(anchors, s2.ret))
       IN Loop(Replace(NewNode(s, TextNode(<<>>)),
                       GetElementsByTagName(s.dom, el, "owl-anchor")))

\* The loop of BNode.build: count times, the first owl-anchor element of the
\* live collection is replaced by a new empty text node, which is anchors[i];
\* the array is left in `ret`.
RECURSIVE BNode_buildAnchors(_, _, _, _, _)
BNode_buildAnchors(s, el, count, i, anchors) ==
  IF i > count THEN [s EXCEPT !.ret = anchors]
  ELSE LET Replace(s1, anchorElems) ==
             IF anchorElems = <<>> THEN Throw(s1)
             ELSE [s1 EXCEPT !.dom = ReplaceWith(@, anchorElems[1], s1.ret)]
           Loop(s2) ==
             IF s2.err THEN s2
             ELSE BNode_buildAnchors(s2, el, count, i + 1, Append(anchors, s2.ret))
       IN Loop(Replace(NewNode(s, TextNode(<<>>)),
                       GetElementsByTagName(s.dom, el, "owl-anchor")))

\* A build whose loop would run while i < anchorElems.length, the length of
\* the live collection, which shrinks with every replacement: half of the
\* placeholders are replaced.
BNode_build_liveLength(s, b) ==
  LET Clone(s0) ==
        [s0 EXCEPT !.dom = CloneUnder(@, s0.blocks[b].tpl, NULL),
                   !.blocks[b].el = Len(s0.dom) + 1]
      SetAnchors(s2) == IF s2.err THEN s2 ELSE [s2 EXCEPT !.blocks[b].anchors = s2.ret]
      Anchors(s1) ==
        IF ~s1.blocks[b].hasChildren THEN s1
        ELSE SetAnchors(BNode_buildAnchors(
               s1, s1.blocks[b].el,
               (Len(GetElementsByTagName(s1.dom, s1.blocks[b].el, "owl-anchor")) + 1) \div 2,
               1, <<>>))
      Handlers(s4) ==
        IF s4.err \/ ~s4.blocks[b].hasHandlers THEN s4
        ELSE BNode_setupHandlers(s4, b, 1)
  IN Handlers(Anchors(Clone(s)))

\* BNode.build
BNode_build(s, b) ==
  LET Clone(s0) ==
        [s0 EXCEPT !.dom = CloneUnder(@, s0.blocks[b].tpl, NULL),
                   !.blocks[b].el = Len(s0.dom) + 1]
      SetAnchors(s2) == IF s2.err THEN s2 ELSE [s2 EXCEPT !.blocks[b].anchors = s2.ret]
      Anchors(s1) ==
        IF ~s1.blocks[b].hasChildren THEN s1
        ELSE SetAnchors(BNode_buildAnchors(
               s1, s1.blocks[b].el,
               Len(GetElementsByTagName(s1.dom, s1.blocks[b].el, "owl-anchor")),
               1, <<>>))
      Update(s3) == IF s3.err THEN s3 ELSE BNode_update(s3, b)
      Handlers(s4) ==
        IF s4.err \/ ~s4.blocks[b].hasHandlers THEN s4
        ELSE BNode_setupHandlers(s4, b, 1)
  IN Handlers(Update(Anchors(Clone(s))))

\* BNode.remove
BNode_remove(s, b) == SDetach(s, s.blocks[b].el)

RECURSIVE MountBefore(_, _, _)
RECURSIVE Patch(_, _, _)
RECURSIVE Remove(_, _)
RECURSIVE BNode_mountChildren(_, _, _)
RECURSIVE BNode_patchChildren(_, _, _, _)
RECURSIVE BMulti_mountLoop(_, _, _, _)
RECURSIVE BMulti_patchLoop(_, _, _, _)
RECURSIVE BMulti_removeLoop(_, _, _)
RECURSIVE BCollection_mountLoop(_, _, _, _)

\* anchors[i] of a block (undefined past the end of the array).
AnchorAt(s, b, i) ==
  IF i <= Len(s.blocks[b].anchors) THEN s.blocks[b].anchors[i] ELSE NULL

\* children[i] of a block (undefined past the end of the array).
ChildAt(s, b, i) ==
  IF i <= Len(s.blocks[b].children) THEN s.blocks[b].children[i] ELSE NULL

\* The loop of BNode.mountBefore over this.children.
BNode_mountChildren(s, b, i) ==
  IF s.err \/ i > Len(s.blocks[b].children) THEN s
  ELSE IF s.blocks[b].children[i] # NULL
    THEN BNode_mountChildren(
           MountBefore(s, s.blocks[b].children[i], AnchorAt(s, b, i)), b, i + 1)
    ELSE BNode_mountChildren(s, b, i + 1)

\* BNode.mountBefore
BNode_mountBefore(s, b, anchor) ==
  LET Children(s1) ==
        IF s1.blocks[b].hasChildren THEN BNode_mountChildren(s1, b, 1) ELSE s1
      Insert(s2) == SBefore(s2, anchor, s2.blocks[b].el)
  IN Insert(Children(BNode_build(s, b)))

\* The loop of BNode.patch over newTree.children.
BNode_patchChildren(s, b, newTree, i) ==
  IF s.err \/ i > Len(s.blocks[newTree].children) THEN s
  ELSE LET newChild == s.blocks[newTree].children[i]
           child == ChildAt(s, b, i)
       IN IF child # NULL
            THEN IF newChild # NULL
                   THEN BNode_patchChildren(Patch(s, child, newChild), b, newTree, i + 1)
                   ELSE BNode_patchChildren(
                          Remove([s EXCEPT !.blocks[b].children[i] = NULL], child),
                          b, newTree, i + 1)
            ELSE IF newChild # NULL
                   THEN BNode_patchChildren(
                          MountBefore([s EXCEPT !.blocks[b].children[i] = newChild],
                                      newChild, AnchorAt(s, b, i)),
                          b, newTree, i + 1)
                   ELSE BNode_patchChildren(s, b, newTree, i + 1)

\* BNode.patch
BNode_patch(s, b, newTree) ==
  LET Children(s1) ==
        IF ~s1.blocks[b].hasChildren THEN s1
        ELSE IF ~s1.blocks[newTree].hasChildren THEN Throw(s1)
        ELSE BNode_patchChildren(s1, b, newTree, 1)
  IN Children(BNode_update([s EXCEPT !.blocks[b].data = s.blocks[newTree].data], b))

\* The loop of BMulti.mountBefore.
BMulti_mountLoop(s, b, anchor, i) ==
  IF s.err \/ i > Len(s.blocks[b].children) THEN s
  ELSE LET Record(s2) ==
             IF s2.err THEN s2 ELSE [s2 EXCEPT !.blocks[b].anchors[i] = s2.ret]
           Insert(s1) == Record(SBefore(s1, anchor, s1.ret))
           Child(s3) ==
             IF s3.err \/ s3.blocks[b].children[i] = NULL THEN s3
             ELSE MountBefore(s3, s3.blocks[b].children[i], s3.blocks[b].anchors[i])
       IN BMulti_mountLoop(Child(Insert(NewNode(s, TextNode(<<>>)))), b, anchor, i + 1)

\* BMulti.mountBefore
BMulti_mountBefore(s, b, anchor) == BMulti_mountLoop(s, b, anchor, 1)

\* The slot that BMulti.patch empties when the block of slot i goes away:
\* the source writes this.children[0] = null.
BMulti_clearedSlot(i) == 1

\* The loop of BMulti.patch over this.children.
BMulti_patchLoop(s, b, newTree, i) ==
  IF s.err \/ i > Len(s.blocks[b].children) THEN s
  ELSE LET block == s.blocks[b].children[i]
           newBlock == ChildAt(s, newTree, i)
       IN IF block # NULL
            THEN IF newBlock # NULL
                   THEN BMulti_patchLoop(Patch(s, block, newBlock), b, newTree, i + 1)
                   ELSE BMulti_patchLoop(
                          Remove([s EXCEPT !.blocks[b].children[BMulti_clearedSlot(i)] = NULL],
                                 block),
                          b, newTree, i + 1)
            ELSE IF newBlock # NULL
                   THEN BMulti_patchLoop(
                          MountBefore([s EXCEPT !.blocks[b].children[i] = newBlock],
                                      newBlock, AnchorAt(s, b, i)),
                          b, newTree, i + 1)
                   ELSE BMulti_patchLoop(s, b, newTree, i + 1)

\* BMulti.patch
BMulti_patch(s, b, newTree) == BMulti_patchLoop(s, b, newTree, 1)

\* The loop of BMulti.remove: this.children[i]!.remove() throws on an empty
\* slot, this.anchors[i].remove() on a missing anchor.
BMulti_removeLoop(s, b, i) ==
  IF s.err \/ i > Len(s.blocks[b].children) THEN s
  ELSE IF s.blocks[b].children[i] = NULL THEN Throw(s)
  ELSE BMulti_removeLoop(
         SDetach(Remove(s, s.blocks[b].children[i]), AnchorAt(s, b, i)), b, i + 1)

\* BMulti.remove
BMulti_remove(s, b) == BMulti_removeLoop(s, b, 1)

\* The loop of BCollection.mountBefore: child.mountBefore(_anchor) throws on
\* an empty entry.
BCollection_mountLoop(s, b, anchor, i) ==
  IF s.err \/ i > Len(s.blocks[b].children) THEN s
  ELSE IF s.blocks[b].children[i] = NULL THEN Throw(s)
  ELSE BCollection_mountLoop(
         MountBefore(s, s.blocks[b].children[i], anchor), b, anchor, i + 1)

\* A mountBefore that would mount the children before the caller's anchor
\* instead of the collection's own.
BCollection_mountBefore_callerAnchor(s, b, anchor) ==
  LET Record(s2) ==
        IF s2.err THEN s2 ELSE [s2 EXCEPT !.blocks[b].anchor = s2.ret]
      Insert(s1) == Record(SBefore(s1, anchor, s1.ret))
      Children(s3) ==
        IF s3.err THEN s3 ELSE BCollection_mountLoop(s3, b, anchor, 1)
  IN Children(Insert(NewNode(s, TextNode(<<>>))))

\* BCollection.mountBefore
BCollection_mountBefore(s, b, anchor) ==
  LET Record(s2) ==
        IF s2.err THEN s2 ELSE [s2 EXCEPT !.blocks[b].anchor = s2.ret]
      Insert(s1) == Record(SBefore(s1, anchor, s1.ret))
      Children(s3) ==
        IF s3.err THEN s3 ELSE BCollection_mountLoop(s3, b, s3.blocks[b].anchor, 1)
  IN Children(Insert(NewNode(s, TextNode(<<>>))))

\* A patch that would patch the first child with the successor's first child.
BCollection_patch_firstChild(s, b, other) ==
  IF ChildAt(s, b, 1) = NULL \/ ChildAt(s, other, 1) = NULL THEN s
  ELSE Patch(s, ChildAt(s, b, 1), ChildAt(s, other, 1))

\* BCollection.patch
BCollection_patch(s, b, other) == s

\* block.mountBefore(anchor), by the variant of the block.
MountBefore(s, b, anchor) ==
  IF s.err THEN s
  ELSE CASE s.blocks[b].variant = "BText" ->
              BText_mountBefore(Call(s, "mountBefore", b, anchor), b, anchor)
         [] s.blocks[b].variant = "BHtml" ->
              BHtml_mountBefore(Call(s, "mountBefore", b, anchor), b, anchor)
         [] s.blocks[b].variant = "BNode" ->
              BNode_mountBefore(Call(s, "mountBefore", b, anchor), b, anchor)
         [] s.blocks[b].variant = "BMulti" ->
              BMulti_mountBefore(Call(s, "mountBefore", b, anchor), b, anchor)
         [] OTHER ->
              BCollection_mountBefore(Call(s, "mountBefore", b, anchor), b, anchor)

\* block.patch(other), by the variant of the block.
Patch(s, b, other) ==
  IF s.err THEN s
  ELSE CASE s.blocks[b].variant = "BText" -> BText_patch(Call(s, "patch", b, other), b, other)
         [] s.blocks[b].variant = "BHtml" -> BHtml_patch(Call(s, "patch", b, other), b, other)
         [] s.blocks[b].variant = "BNode" -> BNode_patch(Call(s, "patch", b, other), b, other)
         [] s.blocks[b].variant = "BMulti" -> BMulti_patch(Call(s, "patch", b, other), b, other)
         [] OTHER -> BCollection_patch(Call(s, "patch", b, other), b, other)

\* block.remove(), by the variant of the block.
Remove(s, b) ==
  IF s.err THEN s
  ELSE CASE s.blocks[b].variant = "BHtml" -> BHtml_remove(Call(s, "remove", b, NULL), b)
         [] s.blocks[b].variant = "BNode" -> BNode_remove(Call(s, "remove", b, NULL), b)
         [] s.blocks[b].variant = "BMulti" -> BMulti_remove(Call(s, "remove", b, NULL), b)
         [] OTHER -> Block_remove(Call(s, "remove", b, NULL), b)

\* A mount that would leave its throwaway anchor in the parent.
Block_mount_keepsAnchor(s, b, parent) ==
  LET Append_(s1) == [s1 EXCEPT !.dom = AppendChild(@, parent, s1.ret)]
      Mount_(s2) == MountBefore(s2, b, s2.ret)
  IN Mount_(Append_(NewNode(s, TextNode(<<>>))))

\* Block.mount: a throwaway anchor at the end of parent, mountBefore it, and
\* the anchor goes.
Block_mount(s, b, parent) ==
  LET Append_(s1) == [s1 EXCEPT !.dom = AppendChild(@, parent, s1.ret)]
      Mount_(s2) == SDetach(MountBefore(s2, b, s2.ret), Len(s.dom) + 1)
  IN Mount_(Append_(NewNode(s, TextNode(<<>>))))

\* Object.prototype.toString, which BCollection inherits: the string
\* "[object Object]", here one character of text.
Block_toString(s, b) == <<Chr("[object Object]")>>

RECURSIVE ToStringOf(_, _)
RECURSIVE BMulti_toStringLoop(_, _, _, _)

\* BNode.toString: the block is mounted into a new <div>, whose innerHTML is
\* returned.
BNode_toString(s, b) ==
  LET Read(s1) == IF s1.err THEN s1 ELSE [s1 EXCEPT !.ret = InnerHTML(s1.dom, Len(s.dom) + 1)]
  IN Read(Block_mount(NewNode(s, ElemNode("div")), b, Len(s.dom) + 1))

\* The map and join of BMulti.toString: the string of every child that is
\* there, the empty string for a slot that is empty.
BMulti_toStringLoop(s, b, i, acc) ==
  IF s.err THEN s
  ELSE IF i > Len(s.blocks[b].children) THEN [s EXCEPT !.ret = acc]
  ELSE IF s.blocks[b].children[i] = NULL THEN BMulti_toStringLoop(s, b, i + 1, acc)
  ELSE LET Join(s1) == BMulti_toStringLoop(s1, b, i + 1, acc \o s1.ret)
       IN Join(ToStringOf(s, s.blocks[b].children[i]))

\* BMulti.toString
BMulti_toString(s, b) == BMulti_toStringLoop(s, b, 1, <<>>)

\* block.toString(), by the variant of the block; the string is left in
\* `ret`.
ToStringOf(s, b) ==
  IF s.err THEN s
  ELSE CASE s.blocks[b].variant = "BText" ->
              [Call(s, "toString", b, NULL) EXCEPT !.ret = BText_toString(s, b)]
         [] s.blocks[b].variant = "BHtml" ->
              [Call(s, "toString", b, NULL) EXCEPT !.ret = BHtml_toString(s, b)]
         [] s.blocks[b].variant = "BNode" -> BNode_toString(Call(s, "toString", b, NULL), b)
         [] s.blocks[b].variant = "BMulti" -> BMulti_toString(Call(s, "toString", b, NULL), b)
         [] OTHER -> [Call(s, "toString", b, NULL) EXCEPT !.ret = Block_toString(s, b)]

\* -------------------------------------------------------------- dispatch

\* The browser runs the listeners of node n for an event of the given type,
\* in the order of their registration.  A listener made by setupHandler
\* calls this.handlers[index][1]; `log` collects the thunks that ran.
RECURSIVE RunListeners(_, _, _, _)
RunListeners(bs, q, type, log) ==
  IF q = <<>> THEN log
  ELSE IF Head(q).type = type
    THEN RunListeners(bs, Tail(q), type,
                      Append(log, bs[Head(q).blk].handlers[Head(q).index].thunk))
    ELSE RunListeners(bs, Tail(q), type, log)

\* ---------------------------------------------------------------- inputs

\* The container the root block is mounted into.
Container == 1

\* The compiled templates (the static el of three BNode subclasses), kept
\* under a holder outside the container:
\*   <p>s</p>                                          no dynamic slot
\*   <div><owl-anchor/></div>                          one slot
\*   <div><b><owl-anchor/></b>s<owl-anchor/></div>     two slots
TemplateMarkup ==
  << Open("p"), Chr("s"), Close("p"),
     Open("div"), Open("owl-anchor"), Close("owl-anchor"), Close("div"),
     Open("div"), Open("b"), Open("owl-anchor"), Close("owl-anchor"), Close("b"),
                  Chr("s"), Open("owl-anchor"), Close("owl-anchor"), Close("div") >>

\* The heap before any block exists: the empty container, the holder and
\* the templates.
InitDom == ParseInto(<<ElemNode("div"), ElemNode("template")>>, <<2>>, TemplateMarkup)

\* The template with k dynamic slots.
Template(k) == InitDom[2].kids[k + 1]

Texts == {<<"a">>, <<"b">>}

Markups ==
  { <<>>,
    <<Chr("x")>>,
    <<Open("b"), Chr("y")>>,
    <<Open("b"), Chr("y"), Close("b")>> }

Thunks == {"h1", "h2"}

OnClick(thunk) == <<[type |-> "click", thunk |-> thunk]>>

\* A node without slots and without handlers.
Plain == TNode(Template(0), "d1", <<>>, <<>>)

Leaves == {TText(t) : t \in Texts} \cup {THtml(m) : m \in Markups}

\* Nodes without slots that listen to clicks.
Buttons == {TNode(Template(0), d, OnClick(h), <<>>) : d \in {"d1", "d2"}, h \in Thunks}

\* What the one slot of a one-slot node can hold: nothing, or a block of any
\* of the five variants.
SlotTrees ==
  { Nil, TText(<<"a">>), TText(<<"b">>), THtml(<<Chr("x")>>),
    THtml(<<Open("b"), Chr("y")>>), Plain,
    TNode(Template(0), "d1", OnClick("h1"), <<>>),
    TMulti(<<TText(<<"a">>)>>), TMulti(<<Nil>>), TCollection(<<TText(<<"a">>)>>) }

Nodes1 == {TNode(Template(1), "d1", <<>>, <<k>>) : k \in SlotTrees}

Nodes2 ==
  { TNode(Template(2), "d1", <<>>, <<k1, k2>>) :
      k1 \in {Nil, Plain, TMulti(<<Nil>>)}, k2 \in {Nil, THtml(<<Chr("x")>>)} }

Multis ==
  { TMulti(<<k1, k2>>) :
      k1 \in {Nil, TText(<<"a">>), TText(<<"b">>)}, k2 \in {Nil, TText(<<"a">>), Plain} }

Collections ==
  { TCollection(<<TText(t), Plain, THtml(<<Chr("x")>>)>>) : t \in Texts }

\* The block trees a render can produce.
Trees == Leaves \cup Buttons \cup Nodes1 \cup Nodes2 \cup Multis \cup Collections

\* A successor tree t is structurally compatible with the mounted block b:
\* same variant, same slot count, and so on for every slot that is present
\* in both.  The children of a collection are not compared: its patch never
\* looks at them.
RECURSIVE Compatible(_, _, _)
Compatible(bs, b, t) ==
  /\ bs[b].variant = t.variant
  /\ bs[b].hasChildren = t.hasChildren
  /\ Len(bs[b].children) = Len(t.children)
  /\ bs[b].variant = "BNode" => bs[b].tpl = t.tpl
  /\ bs[b].variant # "BCollection" =>
       \A i \in 1..Len(t.children) :
         (bs[b].children[i] # NULL /\ t.children[i].variant # "null")
           => Compatible(bs, bs[b].children[i], t.children[i])

\* ------------------------------------------------------------ the machine

\* The nodes of the live tree, in document order.
Live(d) == Descendants(d, Container)

\* What is remembered of the last operation: its name, the block it was
\* called on, the successor handed to patch, the node clicked, the tree the
\* operation was given, and the two heaps as they were before the operation.
Last(op, blk, other, node, tree, d, bs) ==
  [op |-> op, blk |-> blk, other |-> other, node |-> node, tree |-> tree,
   dom |-> d, blocks |-> bs]

\* The same nodes as a set.
LiveSet == {Live(dom)[i] : i \in 1..Len(Live(dom))}

Init ==
  /\ dom = InitDom
  /\ blocks = <<>>
  /\ roots = <<>>
  /\ rendered = Nil
  /\ calls = <<>>
  /\ fired = <<>>
  /\ err = FALSE
  /\ last = Last("init", NULL, NULL, NULL, Nil, <<>>, <<>>)
  /\ history = <<>>
  /\ out = <<>>

\* The heaps after an operation that ended in heap state s.
Commit(s) ==
  /\ dom' = s.dom
  /\ blocks' = s.blocks
  /\ calls' = s.calls
  /\ err' = s.err

\* A factory builds the block tree t and the caller mounts it into the
\* container.
Mount(t) ==
  /\ ~err /\ Len(history) < MaxOps /\ roots = <<>>
  /\ Commit(Block_mount(Construct(Heap(dom, blocks, <<>>, FALSE, NULL), t),
                        Len(blocks) + 1, Container))
  /\ roots' = <<Len(blocks) + 1>>
  /\ rendered' = t
  /\ last' = Last("mount", Len(blocks) + 1, NULL, NULL, t, dom, blocks)
  /\ history' = Append(history, "mount")
  /\ UNCHANGED <<fired, out>>

\* A re-render produces the successor tree t, which the caller hands to the
\* patch of the mounted root.
PatchRoot(t) ==
  /\ ~err /\ Len(history) < MaxOps /\ roots # <<>>
  /\ Compatible(blocks, roots[1], t)
  /\ Commit(Patch(Construct(Heap(dom, blocks, <<>>, FALSE, NULL), t),
                  roots[1], Len(blocks) + 1))
  /\ rendered' = t
  /\ last' = Last("patch", roots[1], Len(blocks) + 1, NULL, t, dom, blocks)
  /\ history' = Append(history, "patch")
  /\ UNCHANGED <<roots, fired, out>>

\* The caller removes the mounted root.
RemoveRoot ==
  /\ ~err /\ Len(history) < MaxOps /\ roots # <<>>
  /\ Commit(Remove(Heap(dom, blocks, <<>>, FALSE, NULL), roots[1]))
  /\ last' = Last("remove", roots[1], NULL, NULL, Nil, dom, blocks)
  /\ roots' = <<>>
  /\ rendered' = Nil
  /\ history' = Append(history, "remove")
  /\ UNCHANGED <<fired, out>>

\* The caller serializes the mounted root.
ToStringRoot ==
  LET Return(s) == Commit(s) /\ out' = s.ret
  IN /\ ~err /\ Len(history) < MaxOps /\ roots # <<>>
     /\ Return(ToStringOf(Heap(dom, blocks, <<>>, FALSE, NULL), roots[1]))
     /\ last' = Last("toString", roots[1], NULL, NULL, Nil, dom, blocks)
     /\ history' = Append(history, "toString")
     /\ UNCHANGED <<roots, rendered, fired>>

\* A click on a node of the live tree that has a listener.
Click(n) ==
  /\ ~err /\ Len(history) < MaxOps
  /\ dom[n].listeners # <<>>
  /\ fired' = RunListeners(blocks, dom[n].listeners, "click", <<>>)
  /\ last' = Last("click", NULL, NULL, n, Nil, dom, blocks)
  /\ calls' = <<>>
  /\ history' = Append(history, "click")
  /\ UNCHANGED <<dom, blocks, roots, rendered, err, out>>

Next ==
  \/ \E t \in Trees : Mount(t)
  \/ \E t \in Trees : PatchRoot(t)
  \/ RemoveRoot
  \/ ToStringRoot
  \/ \E n \in LiveSet : Click(n)

Spec == Init /\ [][Next]_vars

\* ---------------------------------------------------- sibling blocks

\* The trees of the sibling blocks: leaves, a node with a filled slot, a
\* multi block with one slot filled and one empty.
SiblingTrees ==
  { TText(<<"a">>), TText(<<"b">>), THtml(<<Chr("x")>>), THtml(<<Open("b"), Chr("y")>>),
    TNode(Template(0), "d2", <<>>, <<>>),
    TNode(Template(1), "d1", <<>>, <<TText(<<"a">>)>>),
    TNode(Template(1), "d2", <<>>, <<TText(<<"b">>)>>),
    TMulti(<<TText(<<"a">>), Nil>>), TMulti(<<TText(<<"b">>), Nil>>) }

\* The successor tree t replaces data only: it is compatible with block b
\* and has a child exactly in the slots where b has one.
RECURSIVE SameSlots(_, _, _)
SameSlots(bs, b, t) ==
  /\ bs[b].variant = t.variant
  /\ bs[b].hasChildren = t.hasChildren
  /\ Len(bs[b].children) = Len(t.children)
  /\ bs[b].variant = "BNode" => bs[b].tpl = t.tpl
  /\ \A i \in 1..Len(t.children) :
       IF bs[b].children[i] = NULL THEN t.children[i].variant = "null"
       ELSE t.children[i].variant # "null" /\ SameSlots(bs, bs[b].children[i], t.children[i])

\* A factory builds the block tree t and the caller mounts it into the
\* container, after the blocks mounted there before.
MountSibling(t) ==
  /\ ~err /\ Len(history) < MaxOps /\ Len(roots) < MaxSiblings
  /\ Commit(Block_mount(Construct(Heap(dom, blocks, <<>>, FALSE, NULL), t),
                        Len(blocks) + 1, Container))
  /\ roots' = Append(roots, Len(blocks) + 1)
  /\ rendered' = t
  /\ last' = Last("mount", Len(blocks) + 1, NULL, NULL, t, dom, blocks)
  /\ history' = Append(history, "mount")
  /\ UNCHANGED <<fired, out>>

\* A re-render of the k-th sibling produces the successor tree t, which
\* carries new data in the same slots.
PatchSibling(k, t) ==
  /\ ~err /\ Len(history) < MaxOps
  /\ SameSlots(blocks, roots[k], t)
  /\ Commit(Patch(Construct(Heap(dom, blocks, <<>>, FALSE, NULL), t),
                  roots[k], Len(blocks) + 1))
  /\ rendered' = t
  /\ last' = Last("patch", roots[k], Len(blocks) + 1, NULL, t, dom, blocks)
  /\ history' = Append(history, "patch")
  /\ UNCHANGED <<roots, fired, out>>

NextSiblings ==
  \/ \E t \in SiblingTrees : MountSibling(t)
  \/ \E k \in 1..Len(roots) : \E t \in SiblingTrees : PatchSibling(k, t)

SpecSiblings == Init /\ [][NextSiblings]_vars

\* ------------------------------------------------------ the update step

\* Number of update steps run on the mounted node.
MaxUpdates == 2

\* The helper calls an update step is made of, and the update steps: one
\* helper call, or two one after the other.
HelperCalls ==
  { UpdateAttrCall("title", JsString("a")), UpdateAttrCall("title", JsNull),
    UpdateAttrCall("class", JsString("c1")), UpdateAttrCall("class", JsBoolean("false")),
    UpdateClassCall(JsString("c1")), UpdateClassCall(JsString("c2")),
    UpdateClassCall(JsString("")) }

UpdateSteps == {<<c>> : c \in HelperCalls} \cup {<<c1, c2>> : c1, c2 \in HelperCalls}

\* The node's data is applied to its root element: patch and build call
\* this.update().
Update(steps) ==
  /\ ~err /\ Len(history) < MaxOps /\ Len(history) <= MaxUpdates
  /\ roots # <<>> /\ blocks[roots[1]].variant = "BNode"
  /\ Commit(BNode_updateStep(Heap(dom, blocks, <<>>, FALSE, NULL), roots[1], steps))
  /\ last' = Last("update", roots[1], NULL, NULL, Nil, dom, blocks)
  /\ history' = Append(history, "update")
  /\ UNCHANGED <<roots, rendered, fired, out>>

NextUpdate ==
  \/ \E t \in {Plain, TNode(Template(1), "d1", <<>>, <<Nil>>)} : Mount(t)
  \/ \E steps \in UpdateSteps : Update(steps)

SpecUpdate == Init /\ [][NextUpdate]_vars

\* ----------------------------------------------------------------- claims

\* The behaviour so far is one mount followed by patches only.
MountThenPatches ==
  /\ history # <<>>
  /\ history[1] = "mount"
  /\ \A i \in 2..Len(history) : history[i] = "patch"

\* The markup of the container after a fresh instance of tree t is mounted
\* into the empty container of the initial heap.
FreshMarkup(t) ==
  InnerHTML(Block_mount(Construct(Heap(InitDom, <<>>, <<>>, FALSE, NULL), t),
                        1, Container).dom,
            Container)

\* The elements of a sequence, as a set.
Range(q) == {q[i] : i \in 1..Len(q)}

\* The calls of the last operation that are patch calls on a block of the
\* given variant.
PatchCalls(variant) ==
  {c \in Range(calls) : c.op = "patch" /\ blocks[c.blk].variant = variant}

\* The last operation called op on block b with argument arg.
Called(op, b, arg) == \E c \in Range(calls) : c.op = op /\ c.blk = b /\ c.arg = arg

\* The blocks below b (b included), following children.
RECURSIVE Below(_, _)
Below(bs, b) ==
  {b} \cup UNION {Below(bs, bs[b].children[i]) :
                    i \in {j \in 1..Len(bs[b].children) : bs[b].children[j] # NULL}}

\* The DOM nodes block b has put into the tree: a text block its leaf, an
\* html block its leaves (with what is below them) and its anchor, a node
\* block its root element with everything below it, a multi block its
\* anchors and what its children put, a collection its anchor and what its
\* children put.
RECURSIVE Owned(_, _, _)
Owned(d, bs, b) ==
  LET r == bs[b]
      kids == UNION {Owned(d, bs, r.children[i]) :
                       i \in {j \in 1..Len(r.children) : r.children[j] # NULL}}
  IN CASE r.variant = "BText" -> {r.el}
       [] r.variant = "BHtml" ->
            Range(r.content) \cup {r.anchor}
              \cup UNION {Range(Descendants(d, n)) : n \in Range(r.content)}
       [] r.variant = "BNode" ->
            IF r.el = NULL THEN {} ELSE {r.el} \cup Range(Descendants(d, r.el))
       [] r.variant = "BMulti" -> (Range(r.anchors) \ {NULL}) \cup kids
       [] OTHER -> (IF r.anchor = NULL THEN {} ELSE {r.anchor}) \cup kids

\* C1: for a tree of Text, Html, Node and Multi blocks, after every patch of
\* a run of one mount and patches, the markup of the container is the markup
\* a fresh mount of the latest successor tree gives.
PatchRefinesMount ==
  ( /\ last.op = "patch" /\ ~err /\ MountThenPatches
    /\ \A b \in 1..Len(blocks) : blocks[b].variant # "BCollection" )
  => InnerHTML(dom, Container) = FreshMarkup(rendered)

\* C2: BMulti.patch, slot by slot: both absent, nothing; old present and new
\* absent, the old child is removed and that slot is emptied; old absent and
\* new present, the new child is mounted before the slot's anchor and put in
\* the slot; both present, the old child is patched and stays.  Hence the
\* slot is filled after the patch exactly when the successor's slot is.
MultiSlotTransitions ==
  ~err =>
    \A c \in PatchCalls("BMulti") :
      \A i \in 1..Len(blocks[c.blk].children) :
        LET old == last.blocks[c.blk].children[i]
            new == blocks[c.arg].children[i]
            now == blocks[c.blk].children[i]
        IN /\ (old = NULL /\ new = NULL) => now = NULL
           /\ (old # NULL /\ new = NULL) => (Called("remove", old, NULL) /\ now = NULL)
           /\ (old = NULL /\ new # NULL) =>
                (Called("mountBefore", new, blocks[c.blk].anchors[i]) /\ now = new)
           /\ (old # NULL /\ new # NULL) => (Called("patch", old, new) /\ now = old)
           /\ (now # NULL) <=> (new # NULL)

\* The nodes of q stand right before node n, in order, under n's parent.
RightBefore(d, q, n) ==
  /\ d[n].parent # NULL
  /\ LET kids == d[d[n].parent].kids
         k == IndexOf(kids, n)
     IN k > Len(q) /\ SubSeq(kids, k - Len(q), k - 1) = q

\* C3: after patch(other) on a mounted html block, the leaves right before
\* the block's anchor are what other.html parses to.
HtmlPatchShowsSuccessor ==
  ~err =>
    \A c \in PatchCalls("BHtml") :
      /\ RightBefore(dom, blocks[c.blk].content, blocks[c.blk].anchor)
      /\ PrintAll(dom, blocks[c.blk].content) = ParsedMarkup(blocks[c.arg].html)

\* C4: after patch with a successor carrying markup M, what toString gives
\* parses to the same content as M.
HtmlRoundTrip ==
  ~err =>
    \A c \in PatchCalls("BHtml") :
      ParsedMarkup(BHtml_toString(Heap(dom, blocks, calls, err, NULL), c.blk))
        = ParsedMarkup(blocks[c.arg].html)

\* C5: in a run of one mount and patches, every block has mountBefore called
\* at most once, remove called at most once, and no patch or remove after
\* its remove.
LifecycleOnce ==
  MountThenPatches =>
    \A b \in 1..Len(blocks) :
      blocks[b].mounts <= 1 /\ blocks[b].removes <= 1 /\ ~blocks[b].late

\* C6: BNode.patch, slot by slot: both absent, nothing changes; old present
\* and new absent, the old child's remove is called and the slot is null;
\* old absent and new present, the new child is mounted before anchors[i] and
\* is children[i]; both present, the old child is patched with the new one,
\* stays in the slot, and the new child is never mounted.
NodeSlotTransitions ==
  \A c \in PatchCalls("BNode") :
    \A i \in 1..Len(blocks[c.blk].children) :
      LET old == last.blocks[c.blk].children[i]
          new == blocks[c.arg].children[i]
          now == blocks[c.blk].children[i]
      IN /\ (old = NULL /\ new = NULL) => now = NULL
         /\ (old # NULL /\ new = NULL) => (Called("remove", old, NULL) /\ now = NULL)
         /\ (old = NULL /\ new # NULL) =>
              (Called("mountBefore", new, blocks[c.blk].anchors[i]) /\ now = new)
         /\ (old # NULL /\ new # NULL) =>
              (Called("patch", old, new) /\ now = old /\ blocks[new].mounts = 0)

\* The last operation patched a mounted one-slot node whose slot was filled
\* with a successor whose slot is empty.
ChildWentAway ==
  /\ last.op = "patch"
  /\ blocks[last.blk].variant = "BNode"
  /\ Len(blocks[last.blk].children) = 1
  /\ last.blocks[last.blk].children[1] # NULL
  /\ last.tree.children[1].variant = "null"

\* C7: after a one-slot node whose slot holds a mounted child (of any
\* variant) is patched with a successor whose children[0] is null, the
\* anchor of slot 0 is still in the live tree under the node's root and no
\* node the old child had put there is left in the live tree.
RemovedChildLeavesNoTrace ==
  (ChildWentAway /\ ~err) =>
    /\ blocks[last.blk].el \in LiveSet
    /\ blocks[last.blk].anchors[1] \in Range(Descendants(dom, blocks[last.blk].el))
    /\ Owned(last.dom, last.blocks, last.blocks[last.blk].children[1]) \cap LiveSet = {}

\* C8: after remove() on a mounted Text, Html, Node or Collection block no
\* node of that block is left in the live tree.
RemoveDetachesOwned ==
  ( /\ last.op = "remove"
    /\ blocks[last.blk].variant \in {"BText", "BHtml", "BNode", "BCollection"} )
  => Owned(last.dom, last.blocks, last.blk) \cap LiveSet = {}

\* C9: after any number of patches of a mounted node, a click on its root
\* element runs the thunk the latest successor carries, and the element has
\* the one listener per handler that build registered.
ClickRunsCurrentThunk ==
  ( /\ last.op = "click" /\ roots # <<>>
    /\ blocks[roots[1]].variant = "BNode"
    /\ last.node = blocks[roots[1]].el )
  => /\ fired = [i \in 1..Len(rendered.handlers) |-> rendered.handlers[i].thunk]
     /\ Len(dom[last.node].listeners) = Len(rendered.handlers)

\* How often node n occurs in the live tree.
Occurrences(n) == Cardinality({i \in 1..Len(Live(dom)) : Live(dom)[i] = n})

\* C10: after mount and after every patch, every block of the mounted tree,
\* whatever its variant, has an el that is not null and that is a node at
\* exactly one place of the live tree.  (An html block whose markup parses
\* to no node at all has no first leaf to show; it is left aside here.)
MountedHandleInTree ==
  (last.op \in {"mount", "patch"} /\ ~err /\ MountThenPatches) =>
    \A b \in Below(blocks, roots[1]) :
      (blocks[b].variant = "BHtml" => blocks[b].content # <<>>) =>
        (blocks[b].el # NULL /\ Occurrences(blocks[b].el) = 1)

\* C11: a text block's el holds the text the block was constructed with after
\* mount; no operation ever replaces that node; and after every patch its
\* text is the text of the successor handed to that patch.
TextKeepsHandle ==
  ~err =>
    /\ \A b \in 1..Len(last.blocks) :
         blocks[b].variant = "BText" => blocks[b].el = last.blocks[b].el
    /\ (last.op \in {"mount", "patch"} /\ rendered.variant = "BText") =>
         ( /\ blocks[roots[1]].el \in LiveSet
           /\ dom[blocks[roots[1]].el].text = rendered.text )
    /\ \A c \in PatchCalls("BText") :
         dom[blocks[c.blk].el].text = dom[blocks[c.arg].el].text

\* A mounted text block has been patched twice, the second time with a text
\* other than the one it showed.
TextPatchedTwice ==
  /\ ~err /\ history = <<"mount", "patch", "patch">>
  /\ rendered.variant = "BText"
  /\ dom[blocks[roots[1]].el].text # last.dom[blocks[roots[1]].el].text
  /\ dom[blocks[roots[1]].el].text = rendered.text

\* The number of dynamic-slot placeholders of the template of node block b.
SlotCount(b) == Len(GetElementsByTagName(InitDom, blocks[b].tpl, "owl-anchor"))

\* C12: a node block with k dynamic slots has k anchors and k children
\* entries once it is mounted, and still has after every later operation,
\* whichever of its slots are filled.
NodeAnchorsMatchChildren ==
  \A b \in 1..Len(blocks) :
    (blocks[b].variant = "BNode" /\ blocks[b].mounts > 0) =>
      /\ Len(blocks[b].anchors) = Len(blocks[b].children)
      /\ Len(blocks[b].children) = SlotCount(b)

\* A mounted two-slot node has been patched with a successor that fills other
\* slots than the node had filled.
TwoSlotNodeRepatched ==
  /\ ~err /\ last.op = "patch"
  /\ blocks[roots[1]].variant = "BNode"
  /\ Len(blocks[roots[1]].anchors) = 2
  /\ \E i \in 1..2 : last.blocks[roots[1]].children[i] = NULL
                      /\ blocks[roots[1]].children[i] # NULL
  /\ \E i \in 1..2 : last.blocks[roots[1]].children[i] # NULL
                      /\ blocks[roots[1]].children[i] = NULL

\* The position of node n in the live tree, in document order (0: not there).
Position(n) == IndexOf(Live(dom), n)

\* C13: of two sibling blocks mounted one after the other into the same
\* container, every node the first has in the live tree stands before every
\* node the second has there, after any patches of either that replace data
\* in the same slots.
SiblingsKeepOrder ==
  \A i \in 1..Len(roots) : \A j \in (i + 1)..Len(roots) :
    \A n \in Owned(dom, blocks, roots[i]) \cap LiveSet :
      \A m \in Owned(dom, blocks, roots[j]) \cap LiveSet :
        Position(n) < Position(m)

\* Two siblings are mounted and both show nodes; two patches have been made,
\* the last one of the first sibling, an html block that shows leaves.
FirstSiblingPatched ==
  /\ ~err /\ history = <<"mount", "mount", "patch", "patch">>
  /\ Len(roots) = 2 /\ last.blk = roots[1]
  /\ blocks[roots[1]].variant = "BHtml"
  /\ Range(blocks[roots[1]].content) \cap LiveSet # {}
  /\ Owned(dom, blocks, roots[2]) \cap LiveSet # {}

\* C14: a collection of n children of several variants, mounted into the
\* empty container: every child is mounted, the nodes of child i stand before
\* the nodes of child j for i < j, all of them stand before the collection's
\* anchor, the anchor is the last child of the container, and the container
\* holds nothing else.
CollectionMountsInOrder ==
  ( /\ last.op = "mount" /\ ~err
    /\ blocks[last.blk].variant = "BCollection"
    /\ last.dom[Container].kids = <<>> )
  => LET b == blocks[last.blk]
         kids == dom[Container].kids
         Out(i) == Owned(dom, blocks, b.children[i])
     IN /\ kids # <<>> /\ kids[Len(kids)] = b.anchor
        /\ \A i \in 1..Len(b.children) :
             /\ b.children[i] # NULL
             /\ Out(i) # {} /\ Out(i) \subseteq LiveSet
             /\ \A j \in (i + 1)..Len(b.children) :
                  \A n \in Out(i) : \A m \in Out(j) : Position(n) < Position(m)
        /\ LiveSet = {b.anchor} \cup UNION {Out(i) : i \in 1..Len(b.children)}

\* A collection of a text block, a node block and an html block has been
\* mounted into the empty container.
CollectionOfThreeMounted ==
  /\ ~err /\ history = <<"mount">>
  /\ blocks[roots[1]].variant = "BCollection"
  /\ Len(blocks[roots[1]].children) = 3
  /\ blocks[blocks[roots[1]].children[1]].variant = "BText"
  /\ blocks[blocks[roots[1]].children[2]].variant = "BNode"
  /\ blocks[blocks[roots[1]].children[3]].variant = "BHtml"
  /\ Len(dom[Container].kids) > 3

\* C15: mount(container) leaves the children the container had, and what is
\* below them, as they were and in their order; what the block puts into the
\* container comes after them; and the throwaway anchor handed to mountBefore
\* is a new node that is no child of the container when mount returns.
MountAppends ==
  (last.op = "mount" /\ ~err) =>
    LET old == last.dom[Container].kids
        kids == dom[Container].kids
    IN /\ Len(kids) >= Len(old) /\ SubSeq(kids, 1, Len(old)) = old
       /\ \A n \in Range(DescendantsOfAll(last.dom, old)) : dom[n] = last.dom[n]
       /\ Range(SubSeq(kids, Len(old) + 1, Len(kids))) \subseteq Owned(dom, blocks, last.blk)
       /\ Owned(dom, blocks, last.blk) \cap Range(old) = {}
       /\ calls # <<>> /\ calls[1].op = "mountBefore" /\ calls[1].blk = last.blk
       /\ calls[1].arg > Len(last.dom)
       /\ dom[calls[1].arg].parent = NULL
       /\ calls[1].arg \notin LiveSet

\* A second block has been mounted into a container that had children, and
\* has put nodes of its own there.
MountedAfterSibling ==
  /\ ~err /\ last.op = "mount"
  /\ last.dom[Container].kids # <<>>
  /\ Len(dom[Container].kids) > Len(last.dom[Container].kids)

\* The helper calls of the last operation, as an update step.
LastSteps == [i \in 1..Len(calls) |-> calls[i].arg]

\* C16: the update step of a node, made of updateAttr and updateClass calls,
\* applied a second time with the same values leaves every element as the
\* first application left it.
UpdateIdempotent ==
  (last.op = "update" /\ ~err) =>
    BNode_updateStep(Heap(dom, blocks, <<>>, FALSE, NULL), last.blk, LastSteps).dom = dom

\* An update step of two helper calls, one of them updateClass with a class
\* to add, has changed the attributes of the node's root element.
UpdateChangedClass ==
  /\ ~err /\ last.op = "update" /\ Len(calls) = 2
  /\ \E i \in 1..2 : calls[i].op = "updateClass" /\ Truthy(calls[i].arg.value)
  /\ dom[blocks[last.blk].el].attrs # last.dom[blocks[last.blk].el].attrs
  /\ AttrIndex(dom[blocks[last.blk].el].attrs, "class") # 0

\* C17: remove() on a mounted multi block, whichever of its slots are filled,
\* ends without an error, and no node of a child and none of the block's
\* anchors is left in the live tree.
MultiRemoveCompletes ==
  (last.op = "remove" /\ blocks[last.blk].variant = "BMulti") =>
    /\ ~err
    /\ Owned(last.dom, last.blocks, last.blk) \cap LiveSet = {}

\* The blocks on which the last operation called mountBefore.
MountedNow == {c.blk : c \in {x \in Range(calls) : x.op = "mountBefore"}}

\* The number of ancestors of node n.
RECURSIVE Depth(_, _)
Depth(d, n) == IF d[n].parent = NULL THEN 0 ELSE 1 + Depth(d, d[n].parent)

\* The nodes below the root element of node block b that no child of b has
\* put there, in document order: the clone of the template, anchors included.
CloneNodes(b) ==
  LET own == UNION {Owned(dom, blocks, blocks[b].children[i]) :
                      i \in {j \in 1..Len(blocks[b].children) : blocks[b].children[j] # NULL}}
      IsOwn(n) == n \notin own
  IN SelectSeq(Descendants(dom, blocks[b].el), IsOwn)

\* How many of the first j nodes of q are placeholders of the template.
PlaceholdersUpTo(q, j) ==
  Cardinality({k \in 1..j : IsTag(InitDom, q[k], "owl-anchor")})

\* C18: after build of a node block whose template has c placeholders, the
\* clone holds no placeholder; anchors holds c distinct new empty text nodes;
\* the clone is the template node for node, with anchors[i] where the i-th
\* placeholder of the template stands; and the template is as it was.
BuildReplacesPlaceholders ==
  ~err =>
    \A b \in MountedNow :
      (blocks[b].variant = "BNode" /\ blocks[b].hasChildren) =>
        LET r == blocks[b]
            tplNodes == Descendants(InitDom, r.tpl)
            c == Len(GetElementsByTagName(InitDom, r.tpl, "owl-anchor"))
            clone == CloneNodes(b)
        IN /\ GetElementsByTagName(dom, r.el, "owl-anchor") = <<>>
           /\ Len(r.anchors) = c /\ Cardinality(Range(r.anchors)) = c
           /\ \A i \in 1..c :
                /\ r.anchors[i] > Len(last.dom)
                /\ dom[r.anchors[i]].kind = "text" /\ dom[r.anchors[i]].text = <<>>
           /\ Len(clone) = Len(tplNodes)
           /\ \A j \in 1..Len(tplNodes) :
                /\ Depth(dom, clone[j]) - Depth(dom, r.el)
                     = Depth(InitDom, tplNodes[j]) - Depth(InitDom, r.tpl)
                /\ IF IsTag(InitDom, tplNodes[j], "owl-anchor")
                     THEN clone[j] = r.anchors[PlaceholdersUpTo(tplNodes, j)]
                     ELSE /\ clone[j] \notin Range(r.anchors)
                          /\ dom[clone[j]].kind = InitDom[tplNodes[j]].kind
                          /\ dom[clone[j]].tag = InitDom[tplNodes[j]].tag
                          /\ dom[clone[j]].text = InitDom[tplNodes[j]].text
           /\ dom[r.tpl] = InitDom[r.tpl]
           /\ \A n \in Range(tplNodes) : dom[n] = InitDom[n]

\* A node block whose template has two placeholders, at different depths,
\* has been built and mounted with a child in a slot.
TwoSlotNodeBuilt ==
  /\ ~err
  /\ \E b \in MountedNow :
       /\ blocks[b].variant = "BNode" /\ Len(blocks[b].anchors) = 2
       /\ Depth(dom, blocks[b].anchors[1]) # Depth(dom, blocks[b].anchors[2])
       /\ \E i \in 1..2 : blocks[b].children[i] # NULL

\* C19: patch on a mounted collection changes nothing, whatever the
\* successor: the block's children and anchor are the same, every node the
\* collection has put into the tree is as it was, and when the collection is
\* the root the live tree is node for node the tree before the call.
CollectionPatchNoOp ==
  /\ \A c \in PatchCalls("BCollection") :
       /\ blocks[c.blk].children = last.blocks[c.blk].children
       /\ blocks[c.blk].anchor = last.blocks[c.blk].anchor
       /\ blocks[c.blk].el = last.blocks[c.blk].el
       /\ \A k \in Below(last.blocks, c.blk) : blocks[k] = last.blocks[k]
       /\ \A n \in Owned(last.dom, last.blocks, c.blk) : dom[n] = last.dom[n]
  /\ (last.op = "patch" /\ blocks[last.blk].variant = "BCollection") =>
       /\ ~err
       /\ Live(dom) = Live(last.dom)
       /\ \A n \in LiveSet \cup {Container} : dom[n] = last.dom[n]

\* A mounted collection has been patched with a successor whose first child
\* carries a text other than the one the collection shows.
CollectionPatchedWithNewText ==
  /\ ~err /\ last.op = "patch"
  /\ blocks[last.blk].variant = "BCollection"
  /\ rendered.children[1].variant = "BText"
  /\ rendered.children[1].text # dom[blocks[blocks[last.blk].children[1]].el].text

\* The markup of what block b shows in the container on heaps d, bs: its
\* nodes among the children of the container, printed in order.
ShownMarkup(d, bs, b) ==
  LET IsOwn(n) == n \in Owned(d, bs, b)
  IN PrintAll(d, SelectSeq(d[Container].kids, IsOwn))

\* C20: toString on a mounted block, whatever its variant, only reads: the
\* el, the anchors, the content and the children of the block and of every
\* block below it are the same, the live tree is node for node the tree
\* before the call, and the string returned is the markup of what the block
\* shows.
ToStringOnlyReads ==
  (last.op = "toString" /\ ~err) =>
    /\ \A b \in Below(last.blocks, last.blk) :
         /\ blocks[b].el = last.blocks[b].el
         /\ blocks[b].anchor = last.blocks[b].anchor
         /\ blocks[b].anchors = last.blocks[b].anchors
         /\ blocks[b].content = last.blocks[b].content
         /\ blocks[b].children = last.blocks[b].children
    /\ Live(dom) = Live(last.dom)
    /\ \A n \in LiveSet \cup {Container} : dom[n] = last.dom[n]
    /\ ParsedMarkup(out) = ParsedMarkup(ShownMarkup(last.dom, last.blocks, last.blk))

====
